---- MODULE Spec2Model ----
(***************************************************************************)
(* A model of src/mdpgen/mdp.py: the stochastic-matrix utilities, MDP,     *)
(* BlockMDP and AbstractMDP; and of TaxiEnv (src/visgrid/envs/taxi.py),    *)
(* whose state is the variable env.                                        *)
(*                                                                         *)
(* Numbers.  numpy's float arrays are modelled by exact rationals          *)
(* <<n, d>> (d >= 1, lowest terms).  Every matrix the model feeds to the   *)
(* code has entries with small denominators, so the code's exact tests     *)
(* (denoms != 0, Tz != 0, obs_fn > 0) decide the same way on the floats    *)
(* and on the rationals: a sum of non-negative products is zero exactly    *)
(* when every product is.  np.allclose is modelled with numpy's default    *)
(* rtol = 1e-5 and atol = 1e-8.                                            *)
(*                                                                         *)
(* Arrays.  Python lists and numpy arrays are mutable objects, so the T    *)
(* and R fields of an object are addresses into heap; everything else is   *)
(* held by value.  Indices are 1-based in the model (state s of the code   *)
(* is index s + 1); actions inside a policy keep the code's 0-based value. *)
(*                                                                         *)
(* Exceptions.  A call that can raise returns [exc |-> name, val |-> v],   *)
(* exc = "none" when it returned v.                                        *)
(***************************************************************************)
EXTENDS Integers, Sequences, FiniteSets, TLC

VARIABLES heap, mdp1, mdp2, mdp3, ret, nwrites, env

vars == <<heap, mdp1, mdp2, mdp3, ret, nwrites, env>>

(***************************************************************************)
(* Rational arithmetic                                                     *)
(***************************************************************************)
Abs(x) == IF x < 0 THEN -x ELSE x

RECURSIVE Gcd(_, _)
Gcd(a, b) == IF b = 0 THEN a ELSE Gcd(b, a % b)

Rat(n, d) == IF n = 0 THEN <<0, 1>>
             ELSE LET g == Gcd(Abs(n), d) IN <<n \div g, d \div g>>

Zero == <<0, 1>>
One == <<1, 1>>
Half == <<1, 2>>
FromInt(i) == <<i, 1>>

Lcm(a, b) == (a \div Gcd(a, b)) * b

\* numerator of r on the denominator l (a multiple of r[2])
OnDen(r, l) == r[1] * (l \div r[2])

RAdd(a, b) == LET l == Lcm(a[2], b[2]) IN Rat(OnDen(a, l) + OnDen(b, l), l)

RSub(a, b) == LET l == Lcm(a[2], b[2]) IN Rat(OnDen(a, l) - OnDen(b, l), l)

RMul(a, b) == IF a[1] = 0 \/ b[1] = 0 THEN Zero
              ELSE LET g1 == Gcd(Abs(a[1]), b[2])
                       g2 == Gcd(Abs(b[1]), a[2])
                   IN <<(a[1] \div g1) * (b[1] \div g2), (a[2] \div g2) * (b[2] \div g1)>>

\* a / b for b # 0
RDiv(a, b) == IF b[1] > 0 THEN RMul(a, <<b[2], b[1]>>) ELSE RMul(a, <<-b[2], -b[1]>>)

\* the sign of a/b - c/d (b, d > 0), by continued fractions: no product is
\* formed, so large denominators compare without leaving TLC's integers
RECURSIVE Cmp(_, _, _, _)
Cmp(a, b, c, d) ==
    LET qa == a \div b
        qc == c \div d
        ra == a % b
        rc == c % d
    IN IF qa # qc THEN (IF qa < qc THEN -1 ELSE 1)
       ELSE IF ra = 0 /\ rc = 0 THEN 0
       ELSE IF ra = 0 THEN -1
       ELSE IF rc = 0 THEN 1
       ELSE Cmp(d, rc, b, ra)

RLe(a, b) == Cmp(a[1], a[2], b[1], b[2]) <= 0

RLt(a, b) == ~RLe(b, a)

RMin2(a, b) == IF RLe(a, b) THEN a ELSE b

RMax2(a, b) == IF RLe(a, b) THEN b ELSE a

\* float -> int conversion (astype(int)): truncation toward zero
Trunc(a) == IF a[1] >= 0 THEN a[1] \div a[2] ELSE -((-a[1]) \div a[2])

(***************************************************************************)
(* Vectors and matrices: a vector is a sequence of rationals, a matrix a   *)
(* sequence of rows, a stack (T, R) a sequence of matrices, one per action *)
(***************************************************************************)
\* the sequence <<f[1], ..., f[n]>>, built element by element
MkSeq(n, f) == LET g[k \in 0..n] == IF k = 0 THEN <<>> ELSE Append(g[k - 1], f[k])
               IN g[n]

RECURSIVE SumTo(_, _)
SumTo(v, k) == IF k = 0 THEN Zero ELSE RAdd(SumTo(v, k - 1), v[k])

VSum(v) == SumTo(v, Len(v))

NRows(M) == Len(M)

NCols(M) == Len(M[1])

Transpose(M) == MkSeq(NCols(M), [j \in 1..NCols(M) |-> MkSeq(NRows(M), [i \in 1..NRows(M) |-> M[i][j]])])

\* v @ M for a vector v with Len(v) = NRows(M)
VecMat(v, M) == MkSeq(NCols(M), [j \in 1..NCols(M) |-> VSum(MkSeq(Len(v), [i \in 1..Len(v) |-> RMul(v[i], M[i][j])]))])

\* A @ B for NCols(A) = NRows(B)
MatMul(A, B) == MkSeq(NRows(A), [i \in 1..NRows(A) |-> VecMat(A[i], B)])

\* A * B element-wise, same shape
Hadamard(A, B) == MkSeq(NRows(A), [i \in 1..NRows(A) |-> MkSeq(NCols(A), [j \in 1..NCols(A) |-> RMul(A[i][j], B[i][j])])])

RECURSIVE MinTo(_, _)
MinTo(v, k) == IF k = 1 THEN v[1] ELSE RMin2(MinTo(v, k - 1), v[k])

RECURSIVE MaxTo(_, _)
MaxTo(v, k) == IF k = 1 THEN v[1] ELSE RMax2(MaxTo(v, k - 1), v[k])

\* np.min / np.max over a stack of matrices
StackMin(S) == MinTo([a \in 1..Len(S) |->
                   MinTo([i \in 1..NRows(S[a]) |-> MinTo(S[a][i], Len(S[a][i]))], NRows(S[a]))],
                     Len(S))

StackMax(S) == MaxTo([a \in 1..Len(S) |->
                   MaxTo([i \in 1..NRows(S[a]) |-> MaxTo(S[a][i], Len(S[a][i]))], NRows(S[a]))],
                     Len(S))

\* numpy's default tolerances, as 1 / rtol and the ratio rtol / atol
RtolInv == 100000
RtolOverAtol == 1000

\* |a - b| <= atol + rtol * |b|, on the common denominator l:
\* 10^8 * |na - nb| <= l + 1000 * |nb|
Close(a, b) == LET l == Lcm(a[2], b[2])
                   na == OnDen(a, l)
                   nb == OnDen(b, l)
               IN Abs(na - nb) <= ((l \div RtolOverAtol) + Abs(nb)) \div RtolInv

VecClose(u, v) == \A i \in 1..Len(u) : Close(u[i], v[i])

MatClose(A, B) == \A i \in 1..NRows(A) : VecClose(A[i], B[i])

StackClose(S, U) == \A a \in 1..Len(S) : MatClose(S[a], U[a])

Ok(v) == [exc |-> "none", val |-> v]

Raise(e) == [exc |-> e, val |-> <<>>]

(***************************************************************************)
(* Stochastic matrix utilities                                             *)
(***************************************************************************)
\* normalize of a 1-D array
NormalizeVec(v) == LET s == VSum(v)
                   IN MkSeq(Len(v), [i \in 1..Len(v) |-> IF s[1] # 0 THEN RDiv(v[i], s) ELSE Zero])

\* normalize of a 2-D array: each row divided by its sum, a zero-sum row left zero
normalize(M) == MkSeq(NRows(M), [i \in 1..NRows(M) |-> NormalizeVec(M[i])])

is_stochastic(M) == MatClose(M, normalize(M))

(***************************************************************************)
(* Optional arguments (pi=None, p0=None, obs_fn=None) and objects          *)
(***************************************************************************)
NoneArg == [some |-> FALSE, val |-> <<>>]

Some(v) == [some |-> TRUE, val |-> v]

NoObj == [cls |-> "None"]
\* no environment has been constructed
NoEnv == [cls |-> "None"]

\* the value of an array field of an object
ArrT(h, o) == h[o.T]

ArrR(h, o) == h[o.R]

\* storing the reference instead of a copy: the array is shared
AliasCopy(h, addr) == [heap |-> h, addr |-> addr]

\* copy.deepcopy of an array: a fresh array with the same contents
DeepCopy(h, addr) == [heap |-> Append(h, h[addr]), addr |-> Len(h) + 1]

\* np.stack(list) / a freshly computed array
NewArray(h, value) == [heap |-> Append(h, value), addr |-> Len(h) + 1]

Gamma == <<9, 10>>

\* MDP.__init__(T, R, gamma): T and R are the caller's arrays, at addresses Ta, Ra
MDPInit(h, Ta, Ra, gamma) ==
    LET cT == DeepCopy(h, Ta)
        cR == DeepCopy(cT.heap, Ra)
        Tv == h[Ta]
    IN [heap |-> cR.heap,
        obj |-> [cls |-> "MDP",
                 n_states |-> Len(Tv[1]),
                 n_actions |-> Len(Tv),
                 gamma |-> gamma,
                 T |-> cT.addr,
                 R |-> cR.addr,
                 R_min |-> StackMin(cR.heap[cR.addr]),
                 R_max |-> StackMax(cR.heap[cR.addr])]]

\* copy.deepcopy of an MDP, BlockMDP or AbstractMDP: every array it holds is
\* copied, its base_mdp included
RECURSIVE DeepCopyObj(_, _)
DeepCopyObj(h, o) ==
    LET cT == DeepCopy(h, o.T)
        cR == DeepCopy(cT.heap, o.R)
        flat == [[o EXCEPT !.T = cT.addr] EXCEPT !.R = cR.addr]
    IN IF o.cls = "MDP" THEN [heap |-> cR.heap, obj |-> flat]
       ELSE LET cb == DeepCopyObj(cR.heap, o.base_mdp)
            IN [heap |-> cb.heap, obj |-> [flat EXCEPT !.base_mdp = cb.obj]]

(***************************************************************************)
(* MDP: policies                                                           *)
(***************************************************************************)
RECURSIVE Pow(_, _)
Pow(b, e) == IF e = 0 THEN 1 ELSE b * Pow(b, e - 1)

\* gmpy.digits(i, base) for i >= 0 and 2 <= base: the digits of i, most
\* significant first ("0" for 0)
RECURSIVE DigitsOf(_, _)
DigitsOf(i, base) == IF i < base THEN <<i>> ELSE Append(DigitsOf(i \div base, base), i % base)

\* str.zfill(width) on a digit string without sign
ZFill(ds, width) == IF Len(ds) >= width THEN ds
                    ELSE [k \in 1..width |-> IF k <= width - Len(ds) THEN 0
                                             ELSE ds[k - (width - Len(ds))]]

MaxDigitsBase == 36
MinDigitsBase == 2
MaxDecimalDigit == 9

\* MDP.get_policy(i)
get_policy(o, i) ==
    IF ~(i < Pow(o.n_actions, o.n_states)) THEN Raise("AssertionError")
    ELSE IF o.n_actions < MinDigitsBase \/ o.n_actions > MaxDigitsBase
         THEN Raise("ValueError")              \* gmpy.digits rejects the base
    ELSE IF i < 0 THEN Raise("ValueError")     \* int('-') on the sign character
    ELSE LET pi_string == ZFill(DigitsOf(i, o.n_actions), o.n_states)
         IN IF \E k \in 1..Len(pi_string) : pi_string[k] > MaxDecimalDigit
            THEN Raise("ValueError")           \* int('a') on a letter digit
            ELSE Ok(pi_string)

\* MDP.all_policies(): the loop stops at the first get_policy that raises
RECURSIVE PoliciesFrom(_, _, _, _)
PoliciesFrom(o, i, n_policies, policies) ==
    IF i = n_policies THEN Ok(policies)
    ELSE LET pi == get_policy(o, i)
         IN IF pi.exc # "none" THEN Raise(pi.exc)
            ELSE PoliciesFrom(o, i + 1, n_policies, Append(policies, pi.val))

all_policies(o) == PoliciesFrom(o, 0, Pow(o.n_actions, o.n_states), <<>>)

(***************************************************************************)
(* MDP: distributions                                                      *)
(***************************************************************************)
\* np.mean(self.T, axis=0)
MeanT(Tv) == MkSeq(NRows(Tv[1]), [i \in 1..NRows(Tv[1]) |-> MkSeq(NCols(Tv[1]), [j \in 1..NCols(Tv[1]) |->
                 RDiv(VSum(MkSeq(Len(Tv), [a \in 1..Len(Tv) |-> Tv[a][i][j]])), FromInt(Len(Tv)))])])

\* MDP.T_pi(pi) = self.T[pi, np.arange(self.n_states), :]
T_pi(Tv, n_states, pi) ==
    IF Len(pi) # n_states /\ Len(pi) # 1 /\ n_states # 1 THEN Raise("IndexError")
    ELSE IF n_states > NRows(Tv[1]) THEN Raise("IndexError")
    ELSE IF \E s \in 1..Len(pi) : pi[s] < -Len(Tv) \/ pi[s] >= Len(Tv) THEN Raise("IndexError")
    ELSE LET m == IF Len(pi) > n_states THEN Len(pi) ELSE n_states
             act(s) == LET p == IF Len(pi) = 1 THEN pi[1] ELSE pi[s]
                       IN IF p < 0 THEN p + Len(Tv) + 1 ELSE p + 1
             row(s) == IF n_states = 1 THEN 1 ELSE s
         IN Ok(MkSeq(m, [s \in 1..m |-> Tv[act(s)][row(s)]]))

\* MDP.image(pr_x, pi)
image(Tv, n_states, pr_x, pi) ==
    LET T == IF pi.some THEN T_pi(Tv, n_states, pi.val) ELSE Ok(MeanT(Tv))
    IN IF T.exc # "none" THEN Raise(T.exc)
       ELSE IF Len(pr_x) # NRows(T.val) THEN Raise("ValueError")
       ELSE Ok(VecMat(pr_x, T.val))

\* np.allclose(state_distr, old_distr)
DistrClose(state_distr, old_distr) ==
    \A k \in 1..Len(state_distr) :
        Close(state_distr[k], old_distr[IF Len(old_distr) = 1 THEN 1 ELSE k])

\* the loop of stationary_distribution from iteration t on; steps counts the
\* calls of image, broke records that the loop ended by its break
RECURSIVE SDLoop(_, _, _, _, _, _, _)
SDLoop(Tv, n_states, pi, state_distr, old_distr, t, max_steps) ==
    IF t >= max_steps
    THEN [exc |-> "none", val |-> state_distr, steps |-> t, broke |-> FALSE]
    ELSE LET nxt == image(Tv, n_states, state_distr, pi)
         IN IF nxt.exc # "none"
            THEN [exc |-> nxt.exc, val |-> <<>>, steps |-> t + 1, broke |-> FALSE]
            ELSE IF Len(nxt.val) # Len(old_distr) /\ Len(nxt.val) # 1 /\ Len(old_distr) # 1
            THEN [exc |-> "ValueError", val |-> <<>>, steps |-> t + 1, broke |-> FALSE]
            ELSE IF DistrClose(nxt.val, old_distr)
            THEN [exc |-> "none", val |-> nxt.val, steps |-> t + 1, broke |-> TRUE]
            ELSE SDLoop(Tv, n_states, pi, nxt.val, nxt.val, t + 1, max_steps)

DefaultMaxSteps == 200

\* MDP.stationary_distribution(pi, p0, max_steps) on object o
stationary_distribution(h, o, pi, p0, max_steps) ==
    LET state_distr == IF p0.some THEN p0.val
                       ELSE [s \in 1..o.n_states |-> Rat(1, o.n_states)]
    IN SDLoop(ArrT(h, o), o.n_states, pi, state_distr, state_distr, 0, max_steps)

(***************************************************************************)
(* random generators: the random draws are arguments                       *)
(***************************************************************************)
\* random_sparse_mask(size, sparsity): sparsity is a rational; some_ones is the
\* n_rows x (n_cols - 1) outcome of np.random.choice, perms[r] the permutation
\* np.random.shuffle applies to row r
random_sparse_mask(n_rows, n_cols, sparsity, some_ones, perms) ==
    IF n_cols - 1 = 0 THEN Raise("ZeroDivisionError")
    ELSE LET p == RSub(One, sparsity)
             q == RDiv(RSub(RMul(FromInt(n_cols), p), One), FromInt(n_cols - 1))
             mask == IF RLt(Zero, q) /\ RLe(q, One)
                     THEN [r \in 1..n_rows |-> <<One>> \o some_ones[r]]
                     ELSE [r \in 1..n_rows |-> <<One>> \o [c \in 1..(n_cols - 1) |-> Zero]]
         IN Ok([r \in 1..n_rows |-> [c \in 1..n_cols |-> mask[r][perms[r][c]]]])

\* random_observation_fn(n_states, n_obs_per_block): splits[s] is the normalised
\* random row drawn for latent state s.  np.stack(...).squeeze() drops the state
\* axis's partner when n_obs_per_block = 1, and the element-wise product then
\* fails to broadcast for n_states > 1
random_observation_fn(n_states, n_obs_per_block, splits) ==
    IF n_obs_per_block = 1 /\ n_states > 1 THEN Raise("ValueError")
    ELSE LET w == n_states * n_obs_per_block
             obs_fn_mask == [s \in 1..n_states |-> [x \in 1..w |->
                                IF (x - 1) \div n_obs_per_block = s - 1 THEN One ELSE Zero]]
             tiled_split_probs == [s \in 1..n_states |-> [x \in 1..w |->
                                      splits[s][((x - 1) % n_obs_per_block) + 1]]]
         IN Ok(Hadamard(obs_fn_mask, tiled_split_probs))

\* MDP.generate(n_states, n_actions, sparsity) with gamma, Rmin, Rmax at their
\* defaults; sparsity is a Python number.  Tdraw[a] and Rdraw[a] are the
\* matrices np.random.rand and np.round(np.random.uniform(Rmin, Rmax), 2)
\* give for action a, masks[a] what random_sparse_mask returns for it.  The
\* lists T and R are built at the next two free addresses, then cls(T, R, gamma)
generate(h, n_states, n_actions, sparsity, Tdraw, Rdraw, masks) ==
    LET sparse == RLt(Zero, sparsity)
        T_a(a) == IF sparse THEN normalize(Hadamard(normalize(Tdraw[a]), masks[a].val))
                  ELSE normalize(Tdraw[a])
        R_a(a) == IF sparse THEN Hadamard(Rdraw[a], masks[a].val) ELSE Rdraw[a]
        T == NewArray(h, MkSeq(n_actions, [a \in 1..n_actions |-> T_a(a)]))
        R == NewArray(T.heap, MkSeq(n_actions, [a \in 1..n_actions |-> R_a(a)]))
        mdp == MDPInit(R.heap, T.addr, R.addr, Gamma)
    IN IF sparse /\ \E a \in 1..n_actions : masks[a].exc # "none"
       THEN [exc |-> (CHOOSE e \in {masks[a].exc : a \in 1..n_actions} : e # "none"),
             heap |-> h, obj |-> NoObj]
       ELSE [exc |-> "none", heap |-> mdp.heap, obj |-> mdp.obj]

(***************************************************************************)
(* BlockMDP                                                                *)
(***************************************************************************)
\* (obs_fn > 0).astype(int)
ObsMask(obs_fn) == MkSeq(NRows(obs_fn), [s \in 1..NRows(obs_fn) |-> MkSeq(NCols(obs_fn), [x \in 1..NCols(obs_fn) |->
                       IF obs_fn[s][x][1] > 0 THEN One ELSE Zero])])

\* BlockMDP.__init__(base_mdp, n_obs_per_block, obs_fn); splits are the random
\* draws random_observation_fn uses when obs_fn is None
BlockMDPInit(h, base_mdp, n_obs_per_block, obs_fn_arg, splits) ==
    LET sup == MDPInit(h, base_mdp.T, base_mdp.R, base_mdp.gamma)
        cpy == DeepCopyObj(sup.heap, base_mdp)
        n_states == base_mdp.n_states * n_obs_per_block
        of == IF obs_fn_arg.some THEN Ok(obs_fn_arg.val)
              ELSE random_observation_fn(base_mdp.n_states, n_obs_per_block, splits)
        obs_fn == of.val
        obs_mask == ObsMask(obs_fn)
        baseT == ArrT(h, base_mdp)
        baseR == ArrR(h, base_mdp)
        Tx == MkSeq(sup.obj.n_actions, [a \in 1..sup.obj.n_actions |->
                  MatMul(MatMul(Transpose(obs_mask), baseT[a]), obs_fn)])
        Rx == MkSeq(sup.obj.n_actions, [a \in 1..sup.obj.n_actions |->
                  MatMul(MatMul(Transpose(obs_mask), baseR[a]), obs_mask)])
        nT == NewArray(cpy.heap, Tx)
        nR == NewArray(nT.heap, Rx)
    IN IF of.exc # "none" THEN [exc |-> of.exc, heap |-> h, obj |-> NoObj]
       ELSE IF NRows(obs_fn) # NRows(baseT[1])
       THEN [exc |-> "ValueError", heap |-> h, obj |-> NoObj]
       ELSE [exc |-> "none", heap |-> nR.heap,
             obj |-> [cls |-> "BlockMDP",
                      n_states |-> n_states,
                      n_actions |-> sup.obj.n_actions,
                      gamma |-> sup.obj.gamma,
                      T |-> nT.addr,
                      R |-> nR.addr,
                      R_min |-> sup.obj.R_min,
                      R_max |-> sup.obj.R_max,
                      base_mdp |-> cpy.obj,
                      obs_fn |-> obs_fn]]

(***************************************************************************)
(* AbstractMDP                                                             *)
(***************************************************************************)
\* AbstractMDP.B(p) = normalize(p * phi.transpose())
B(phi, p) == normalize(MkSeq(NCols(phi), [z \in 1..NCols(phi) |-> MkSeq(NRows(phi), [x \in 1..NRows(phi) |->
                            RMul(p[IF Len(p) = 1 THEN 1 ELSE x], phi[x][z])])]))

compute_Tz(phi, belief, Tx) == MatMul(MatMul(belief, Tx), phi)

compute_Rz(phi, belief, Rx, Tx, Tz) ==
    LET num == MatMul(MatMul(belief, Hadamard(Rx, Tx)), phi)
    IN MkSeq(NRows(Tz), [z \in 1..NRows(Tz) |-> MkSeq(NCols(Tz), [y \in 1..NCols(Tz) |->
           IF Tz[z][y][1] # 0 THEN RDiv(num[z][y], Tz[z][y]) ELSE Zero])])

\* AbstractMDP.__init__(base_mdp, phi, pi, p0)
AbstractMDPInit(h, base_mdp, phi, pi, p0) ==
    LET sup == MDPInit(h, base_mdp.T, base_mdp.R, base_mdp.gamma)
        cpy == DeepCopyObj(sup.heap, base_mdp)
        sd == stationary_distribution(cpy.heap, cpy.obj, pi, p0, DefaultMaxSteps)
        state_distr == sd.val
        belief == B(phi, state_distr)
        baseT == ArrT(h, base_mdp)
        baseR == ArrR(h, base_mdp)
        Tz == MkSeq(Len(baseT), [a \in 1..Len(baseT) |-> compute_Tz(phi, belief, baseT[a])])
        Rz == MkSeq(Len(baseT), [a \in 1..Len(baseT) |-> compute_Rz(phi, belief, baseR[a], baseT[a], Tz[a])])
        nT == NewArray(cpy.heap, Tz)
        nR == NewArray(nT.heap, Rz)
    IN IF sd.exc # "none" THEN [exc |-> sd.exc, heap |-> h, obj |-> NoObj]
       ELSE IF (Len(state_distr) # NRows(phi) /\ Len(state_distr) # 1)
               \/ NRows(phi) # NRows(baseT[1])
       THEN [exc |-> "ValueError", heap |-> h, obj |-> NoObj]
       ELSE [exc |-> "none", heap |-> nR.heap,
             obj |-> [cls |-> "AbstractMDP",
                      n_states |-> NCols(phi),
                      n_actions |-> sup.obj.n_actions,
                      gamma |-> sup.obj.gamma,
                      T |-> nT.addr,
                      R |-> nR.addr,
                      R_min |-> sup.obj.R_min,
                      R_max |-> sup.obj.R_max,
                      base_mdp |-> cpy.obj,
                      phi |-> phi,
                      n_obs |-> base_mdp.n_states,
                      belief |-> belief,
                      Rmin |-> StackMin(Rz),
                      Rmax |-> StackMax(Rz)]]

\* the states of is_abstract_policy's agg_states, in index order:
\* ((phi.sum(axis=0) > 1) @ phi.transpose()).astype(bool)
AggStates(phi) ==
    LET multi == [z \in 1..NCols(phi) |->
                     IF RLt(One, VSum([x \in 1..NRows(phi) |-> phi[x][z]])) THEN One ELSE Zero]
    IN [x \in 1..NRows(phi) |-> VSum([z \in 1..NCols(phi) |-> RMul(multi[z], phi[x][z])])[1] # 0]

\* pi[agg_states]: boolean-mask selection
RECURSIVE Select(_, _, _)
Select(pi, agg, k) == IF k = 0 THEN <<>>
                      ELSE IF agg[k] THEN Append(Select(pi, agg, k - 1), pi[k])
                      ELSE Select(pi, agg, k - 1)

\* AbstractMDP.is_abstract_policy(pi)
is_abstract_policy(o, pi) ==
    LET agg_states == AggStates(o.phi)
        chosen == Select(pi, agg_states, Len(pi))
    IN IF Len(pi) # Len(agg_states) THEN Raise("IndexError")
       ELSE IF chosen = <<>> THEN Raise("IndexError")     \* pi[agg_states][0]
       ELSE Ok(\A k \in 1..Len(chosen) : chosen[k] = chosen[1])

\* AbstractMDP.get_abstract_policy(pi).  The float sum pi @ obs_fn.transpose()
\* equals the exact one for the class sizes of the model (up to 5 members)
get_abstract_policy(o, pi) ==
    LET ok == is_abstract_policy(o, pi)
        mask == Transpose(o.phi)
        obs_fn == normalize(mask)
    IN IF ok.exc # "none" THEN Raise(ok.exc)
       ELSE IF ~ok.val THEN Raise("AssertionError")
       ELSE Ok([z \in 1..NRows(obs_fn) |->
                  Trunc(VSum([x \in 1..Len(pi) |-> RMul(FromInt(pi[x]), obs_fn[z][x])]))])

(***************************************************************************)
(* Inputs of the construction chain MDP -> BlockMDP -> AbstractMDP          *)
(***************************************************************************)
UnitRow(n, i) == [j \in 1..n |-> IF j = i THEN One ELSE Zero]

UniformRow(n) == [j \in 1..n |-> Rat(1, n)]

ZeroRow(n) == [j \in 1..n |-> Zero]

\* rows of a transition matrix: a deterministic move, the uniform row, or the
\* all-zero row of a state with no transition
TRows(n) == {UnitRow(n, i) : i \in 1..n} \cup {UniformRow(n), ZeroRow(n)}

TMats(n) == [1..n -> TRows(n)]

Identity(n) == [i \in 1..n |-> UnitRow(n, i)]

\* every state moves to the next one, the last to the first
Shift(n) == [i \in 1..n |-> UnitRow(n, (i % n) + 1)]

\* every state moves to state 1: the other states are never entered
Sink(n) == [i \in 1..n |-> UnitRow(n, 1)]

\* the identity with the last state's row all-zero
Dead(n) == [i \in 1..n |-> IF i = n THEN ZeroRow(n) ELSE UnitRow(n, i)]

\* the two matrices of a two-action stack.  The exact iterates of
\* stationary_distribution have denominators that grow with every step, so
\* the pairs are those whose action-averaged chain settles (within
\* np.allclose's tolerance) while the denominators fit TLC's integers
FirstMats(n) == {Identity(n), Sink(n)}

SecondMats(n) == {Identity(n), Shift(n), Sink(n), Dead(n)}

MaxStates == 2

\* the stacks T a caller passes to MDP(T, R): one action over 1..MaxStates
\* states, or two actions over MaxStates states
TStacks == UNION {{<<M>> : M \in TMats(n)} : n \in 1..MaxStates}
           \cup {<<M1, M2>> : M1 \in FirstMats(MaxStates), M2 \in SecondMats(MaxStates)}

\* a reward for every (action, state, next state): both signs occur
RValue(a, s, y) == Rat(2 * (s - y) + a, 2)

\* the reward stacks a caller passes with T: rewards everywhere ("dense"), or
\* zero wherever T is zero as MDP.generate's masking leaves them ("masked")
RKinds == {"dense", "masked"}

RStack(T, kind) == [a \in 1..Len(T) |-> [s \in 1..NRows(T[a]) |-> [y \in 1..NCols(T[a]) |->
                       IF kind = "masked" /\ T[a][s][y][1] = 0 THEN Zero ELSE RValue(a, s, y)]]]

MaxObsPerBlock == 2

\* the normalised random row random_observation_fn draws for one state: the
\* even split (an uneven one pushes the exact iterates of a chain that loses
\* mass past TLC's integers)
SplitRows(k) == {UniformRow(k)}

\* block-diagonal obs_fn with the given row per state
BlockDiag(n, k, rows) == [s \in 1..n |-> [x \in 1..(n * k) |->
                             IF (x - 1) \div k = s - 1 THEN rows[s][((x - 1) % k) + 1] ELSE Zero]]

\* explicit obs_fn arguments: row-stochastic and block-diagonal, 1..MaxObsPerBlock
\* observations per block
ObsFns(n) == {BlockDiag(n, k, [s \in 1..n |-> UniformRow(k)]) : k \in 1..MaxObsPerBlock}

\* one-hot aggregation matrices of shape nx x nz
OneHots(nx, nz) == {[x \in 1..nx |-> UnitRow(nz, f[x])] : f \in [1..nx -> 1..nz]}

MaxAbstract == 2

Phis(nx) == UNION {OneHots(nx, nz) : nz \in 1..MaxAbstract}

\* every state in the one class
AllToOne(nx) == [x \in 1..nx |-> <<One>>]

\* every state its own class: no class has several members
IdentityPhi(nx) == Identity(nx)

\* states 1,2 -> class 1, states 3,4 -> class 2, ...: several classes with
\* several members from four states on
PairsPhi(nx) == [x \in 1..nx |-> UnitRow((nx + 1) \div 2, (x + 1) \div 2)]

PolicyPhis(nx) == {AllToOne(nx), IdentityPhi(nx), PairsPhi(nx)}

\* test()'s perfect abstraction: phi = (obs_fn.transpose() > 0).astype(int)
PerfectPhi(obs_fn) == Transpose(ObsMask(obs_fn))

ConstPolicy(n, a) == [s \in 1..n |-> a]

\* the reference policies passed to AbstractMDP: None, or a constant policy
PiArgs(n_states, n_actions) == {NoneArg} \cup {Some(ConstPolicy(n_states, a)) : a \in 0..(n_actions - 1)}

\* the aggregations and reference policies a run draws from: every one-hot phi
\* with every pi ("chain"), the single-class phi ("one") or the three named
\* partitions ("policy") with pi=None
PhiFamily(family, nx) == CASE family = "chain" -> Phis(nx)
                           [] family = "one" -> {AllToOne(nx)}
                           [] family = "policy" -> PolicyPhis(nx)

PiFamily(family, n_states, n_actions) ==
    IF family = "chain" THEN PiArgs(n_states, n_actions) ELSE {NoneArg}

(***************************************************************************)
(* The construction chain                                                  *)
(***************************************************************************)
CallerT == 1
CallerR == 2

Init == /\ \E T \in TStacks, kind \in RKinds : heap = <<T, RStack(T, kind)>>
        /\ mdp1 = NoObj
        /\ mdp2 = NoObj
        /\ mdp3 = NoObj
        /\ ret = [op |-> "none", exc |-> "none"]
        /\ nwrites = 0
        /\ env = NoEnv

\* mdp1 = MDP(T, R)
NewMDP == /\ mdp1.cls = "None"
          /\ \E r \in {MDPInit(heap, CallerT, CallerR, Gamma)} :
                /\ heap' = r.heap
                /\ mdp1' = r.obj
          /\ ret' = [op |-> "MDP", exc |-> "none"]
          /\ UNCHANGED <<mdp2, mdp3, nwrites, env>>

BlockResult(r, given) ==
    /\ heap' = r.heap
    /\ mdp2' = r.obj
    /\ ret' = [op |-> "BlockMDP", exc |-> r.exc, obs_fn_given |-> given]
    /\ UNCHANGED <<mdp1, mdp3, nwrites, env>>

DefaultObsPerBlock == 2

\* mdp2 = BlockMDP(mdp1, n_obs_per_block=k), or BlockMDP(mdp1, obs_fn=obs_fn)
\* with n_obs_per_block left at its default
NewBlockMDP ==
    /\ mdp1.cls # "None" /\ mdp2.cls = "None" /\ mdp3.cls = "None"
    /\ \/ \E k \in 1..MaxObsPerBlock :
             \E splits \in [1..mdp1.n_states -> SplitRows(k)] :
                \E r \in {BlockMDPInit(heap, mdp1, k, NoneArg, splits)} : BlockResult(r, FALSE)
       \/ \E obs_fn \in ObsFns(mdp1.n_states) :
             \E r \in {BlockMDPInit(heap, mdp1, DefaultObsPerBlock, Some(obs_fn), <<>>)} :
                BlockResult(r, TRUE)

\* mdp3 = AbstractMDP(base, phi, pi) for phi and pi of the family (and test()'s
\* perfect phi over a BlockMDP); base is the BlockMDP when there is one, else
\* mdp1
NewAbstractOf(family) ==
    /\ mdp1.cls # "None" /\ mdp3.cls = "None"
    /\ LET base == IF mdp2.cls # "None" THEN mdp2 ELSE mdp1
           nx == NRows(ArrT(heap, base)[1])
       IN \E phi \in PhiFamily(family, nx)
                     \cup (IF base.cls = "BlockMDP" THEN {PerfectPhi(base.obs_fn)} ELSE {}),
             pi \in PiFamily(family, base.n_states, base.n_actions) :
             \E r \in {AbstractMDPInit(heap, base, phi, pi, NoneArg)} :
                /\ heap' = r.heap
                /\ mdp3' = r.obj
                /\ ret' = [op |-> "AbstractMDP", exc |-> r.exc, pi |-> pi, p0 |-> NoneArg]
    /\ UNCHANGED <<mdp1, mdp2, nwrites, env>>

NewAbstractMDP == NewAbstractOf("chain")

Next == NewMDP \/ NewBlockMDP \/ NewAbstractMDP

Spec == Init /\ [][Next]_vars

(***************************************************************************)
(* The chain with a caller that changes arrays in place                    *)
(***************************************************************************)
\* the stacks of the aliasing runs: one action, every row a deterministic move
AliasTStacks == UNION {{<<Identity(n)>>, <<Shift(n)>>, <<Sink(n)>>} : n \in 1..MaxStates}

InitAlias == /\ \E T \in AliasTStacks, kind \in RKinds : heap = <<T, RStack(T, kind)>>
             /\ mdp1 = NoObj
             /\ mdp2 = NoObj
             /\ mdp3 = NoObj
             /\ ret = [op |-> "none", exc |-> "none"]
             /\ nwrites = 0
             /\ env = NoEnv

MaxWrites == 2

\* arr[...] = 0: every entry of the array overwritten in place
Scribble(arr) == [a \in 1..Len(arr) |-> [s \in 1..NRows(arr[a]) |->
                     [y \in 1..Len(arr[a][s]) |-> Zero]]]

\* the arrays the caller holds a reference to: its own T and R, and the base
\* MDP's T and R
CallerReach == [callerT |-> CallerT, callerR |-> CallerR]
               @@ (IF mdp1.cls = "None" THEN <<>> ELSE [baseT |-> mdp1.T, baseR |-> mdp1.R])

\* the caller changes one of those arrays in place
CallerWrite ==
    /\ nwrites < MaxWrites
    /\ \E name \in DOMAIN CallerReach :
          /\ heap[CallerReach[name]] # Scribble(heap[CallerReach[name]])
          /\ heap' = [heap EXCEPT ![CallerReach[name]] = Scribble(@)]
          /\ ret' = [op |-> "write", exc |-> "none", target |-> name]
    /\ nwrites' = nwrites + 1
    /\ UNCHANGED <<mdp1, mdp2, mdp3, env>>

AliasAbstractMDP == NewAbstractOf("one")

NextAlias == NewMDP \/ NewBlockMDP \/ AliasAbstractMDP \/ CallerWrite

SpecAlias == InitAlias /\ [][NextAlias]_vars

\* the operations that only read an object.  Their results do not depend on
\* earlier reads, so a run makes one read, after any number of constructions
ReadOps == {"get_policy", "all_policies", "is_abstract_policy", "get_abstract_policy",
            "stationary_distribution", "random_sparse_mask"}

NoReadYet == ret.op \notin ReadOps

(***************************************************************************)
(* Policies: enumeration on an MDP, piecewise-constant policies on an      *)
(* AbstractMDP built directly over it                                      *)
(***************************************************************************)
MaxPolicyStates == 4
MaxActions == 2

\* every action leaves every state where it is: stationary_distribution
\* settles on the uniform distribution at its first step
PolicyTStacks == {[a \in 1..na |-> Identity(n)] : n \in 1..MaxPolicyStates, na \in 1..MaxActions}

InitPolicy == /\ \E T \in PolicyTStacks : heap = <<T, RStack(T, "masked")>>
              /\ mdp1 = NoObj
              /\ mdp2 = NoObj
              /\ mdp3 = NoObj
              /\ ret = [op |-> "none", exc |-> "none"]
              /\ nwrites = 0
              /\ env = NoEnv

PolicyAbstractMDP == NewAbstractOf("policy")

\* deterministic base policies: one action index per base state
BasePolicies(o) == [1..o.n_obs -> 0..(o.n_actions - 1)]

MaxBelow == 2

\* mdp1.get_policy(i), for every index of the range, the first one past it and
\* the first MaxBelow negative ones
GetPolicy ==
    /\ NoReadYet
    /\ mdp1.cls # "None"
    /\ \E i \in (-MaxBelow)..Pow(mdp1.n_actions, mdp1.n_states) :
          \E r \in {get_policy(mdp1, i)} :
             ret' = [op |-> "get_policy", exc |-> r.exc, val |-> r.val, arg |-> i]
    /\ UNCHANGED <<heap, mdp1, mdp2, mdp3, nwrites, env>>

\* mdp1.all_policies()
AllPolicies ==
    /\ NoReadYet
    /\ mdp1.cls # "None"
    /\ \E r \in {all_policies(mdp1)} :
          ret' = [op |-> "all_policies", exc |-> r.exc, val |-> r.val]
    /\ UNCHANGED <<heap, mdp1, mdp2, mdp3, nwrites, env>>

\* mdp3.is_abstract_policy(pi)
IsAbstractPolicy ==
    /\ NoReadYet
    /\ mdp3.cls = "AbstractMDP"
    /\ \E pi \in BasePolicies(mdp3) :
          \E r \in {is_abstract_policy(mdp3, pi)} :
             ret' = [op |-> "is_abstract_policy", exc |-> r.exc, val |-> r.val, arg |-> pi]
    /\ UNCHANGED <<heap, mdp1, mdp2, mdp3, nwrites, env>>

\* mdp3.get_abstract_policy(pi)
GetAbstractPolicy ==
    /\ NoReadYet
    /\ mdp3.cls = "AbstractMDP"
    /\ \E pi \in BasePolicies(mdp3) :
          \E r \in {get_abstract_policy(mdp3, pi)} :
             ret' = [op |-> "get_abstract_policy", exc |-> r.exc, val |-> r.val, arg |-> pi]
    /\ UNCHANGED <<heap, mdp1, mdp2, mdp3, nwrites, env>>

NextPolicy == \/ NewMDP
              \/ PolicyAbstractMDP
              \/ GetPolicy
              \/ AllPolicies
              \/ IsAbstractPolicy
              \/ GetAbstractPolicy

SpecPolicy == InitPolicy /\ [][NextPolicy]_vars

(***************************************************************************)
(* stationary_distribution called on an MDP and on a BlockMDP over it      *)
(***************************************************************************)
\* one action over 1..MaxStates states, or two actions over MaxStates states
SDTStacks == UNION {{<<M>> : M \in SecondMats(n)} : n \in 1..MaxStates}
             \cup {<<Identity(MaxStates), Shift(MaxStates)>>, <<Sink(MaxStates), Shift(MaxStates)>>}

InitSD == /\ \E T \in SDTStacks : heap = <<T, RStack(T, "masked")>>
          /\ mdp1 = NoObj
          /\ mdp2 = NoObj
          /\ mdp3 = NoObj
          /\ ret = [op |-> "none", exc |-> "none"]
          /\ nwrites = 0
          /\ env = NoEnv

MaxSteps == 3

\* pi=None, or one action index per state
SDPolicies(o) == {NoneArg} \cup {Some(pi) : pi \in [1..o.n_states -> 0..(o.n_actions - 1)]}

\* p0=None, or a distribution over the states of T: all mass on one state, or
\* uniform
SDStarts(h, o) == LET n == NRows(ArrT(h, o)[1])
                  IN {NoneArg} \cup {Some(UnitRow(n, i)) : i \in 1..n} \cup {Some(UniformRow(n))}

SDResult(name, r, pi, p0, max_steps) ==
    ret' = [op |-> "stationary_distribution", obj |-> name, exc |-> r.exc, val |-> r.val,
            steps |-> r.steps, broke |-> r.broke, pi |-> pi, p0 |-> p0, max_steps |-> max_steps]

\* o.stationary_distribution(pi, p0, max_steps) for o the MDP or the BlockMDP
StationaryDistribution ==
    /\ NoReadYet
    /\ \E name \in {"mdp1", "mdp2"} :
          LET o == IF name = "mdp1" THEN mdp1 ELSE mdp2
          IN /\ o.cls # "None"
             /\ \E pi \in SDPolicies(o), p0 \in SDStarts(heap, o), max_steps \in 0..MaxSteps :
                   \E r \in {stationary_distribution(heap, o, pi, p0, max_steps)} :
                      SDResult(name, r, pi, p0, max_steps)
    /\ UNCHANGED <<heap, mdp1, mdp2, mdp3, nwrites, env>>

NextSD == NewMDP \/ NewBlockMDP \/ StationaryDistribution

SpecSD == InitSD /\ [][NextSD]_vars

(***************************************************************************)
(* random_sparse_mask, and MDP.generate which calls it                     *)
(***************************************************************************)
MaxRows == 2
MaxCols == 3

Sparsities == {Zero, Rat(1, 4), Half, Rat(3, 4)}

\* the orders np.random.shuffle can leave a row of n entries in
Perms(n) == {f \in [1..n -> 1..n] : \A i \in 1..n, j \in 1..n : f[i] = f[j] => i = j}

\* the outcomes of np.random.choice([0,1], size=(n_rows, n_cols))
Choices(n_rows, n_cols) == [1..n_rows -> [1..n_cols -> {Zero, One}]]

InitMask == /\ heap = <<>>
            /\ mdp1 = NoObj
            /\ mdp2 = NoObj
            /\ mdp3 = NoObj
            /\ ret = [op |-> "none", exc |-> "none"]
            /\ nwrites = 0
            /\ env = NoEnv

\* random_sparse_mask((n_rows, n_cols), sparsity)
RandomSparseMask ==
    /\ ret.op = "none"
    /\ \E n_rows \in 1..MaxRows, n_cols \in 1..MaxCols, sparsity \in Sparsities :
          \E some_ones \in Choices(n_rows, n_cols - 1), perms \in [1..n_rows -> Perms(n_cols)] :
             \E r \in {random_sparse_mask(n_rows, n_cols, sparsity, some_ones, perms)} :
                ret' = [op |-> "random_sparse_mask", exc |-> r.exc, val |-> r.val,
                        n_rows |-> n_rows, n_cols |-> n_cols, sparsity |-> sparsity]
    /\ UNCHANGED <<heap, mdp1, mdp2, mdp3, nwrites, env>>

\* np.random.rand: every entry the same, so normalize gives uniform rows
RandDraw(n) == [s \in 1..n |-> [y \in 1..n |-> Half]]

\* np.round(np.random.uniform(-1, 1), 2): two-decimal rewards of both signs
RewardDraw(n) == [s \in 1..n |-> [y \in 1..n |-> Rat(25 * (s - y), 100)]]

\* mdp1 = MDP.generate(n_states, 1, sparsity)
Generate ==
    /\ ret.op = "none"
    /\ \E n_states \in 1..MaxStates, sparsity \in Sparsities :
          \E some_ones \in Choices(n_states, n_states - 1), perms \in [1..n_states -> Perms(n_states)] :
             \E r \in {generate(heap, n_states, 1, sparsity, <<RandDraw(n_states)>>, <<RewardDraw(n_states)>>,
                                <<random_sparse_mask(n_states, n_states, sparsity, some_ones, perms)>>)} :
                /\ heap' = r.heap
                /\ mdp1' = r.obj
                /\ ret' = [op |-> "generate", exc |-> r.exc, n_states |-> n_states, sparsity |-> sparsity]
    /\ UNCHANGED <<mdp2, mdp3, nwrites, env>>

NextMask == RandomSparseMask \/ Generate

SpecMask == InitMask /\ [][NextMask]_vars

(***************************************************************************)
(* TaxiEnv (src/visgrid/envs/taxi.py).  Positions are <<row, col>> pairs,  *)
(* zero-based as in the code.  GridworldEnv, the grid and the components   *)
(* Passenger, Depot and the agent are collaborators of TaxiEnv: they are   *)
(* modelled by the interface that taxi.py uses, positions held by value.   *)
(***************************************************************************)
INTERACT == 5

\* depot_locs of _initialize_depots, by size
depot_locs(size) ==
    IF size = 5
    THEN [red |-> <<0, 0>>, yellow |-> <<4, 0>>, blue |-> <<4, 3>>, green |-> <<0, 4>>]
    ELSE [red |-> <<0, 0>>, blue |-> <<8, 0>>, green |-> <<9, 4>>, yellow |-> <<0, 5>>,
          gray |-> <<3, 3>>, magenta |-> <<4, 6>>, cyan |-> <<0, 8>>, orange |-> <<9, 9>>]

\* depot_names = sorted(depot_locs.keys())
depot_names(size) ==
    IF size = 5
    THEN <<"blue", "green", "red", "yellow">>
    ELSE <<"blue", "cyan", "gray", "green", "magenta", "orange", "red", "yellow">>

\* depot_ids = {name: id_ for id_, name in enumerate(depot_names)}
depot_ids(size) ==
    [name \in DOMAIN depot_locs(size) |->
        (CHOOSE k \in 1..Len(depot_names(size)) : depot_names(size)[k] = name) - 1]

\* the grid array of GridworldEnv before _initialize_walls: (2 rows + 1) by
\* (2 cols + 1) entries, cell (r, c) at entry (2r + 1, 2c + 1), the outer
\* border set to 1
GridBorder(size) ==
    {g \in (0..(2 * size)) \X (0..(2 * size)) :
        g[1] = 0 \/ g[1] = 2 * size \/ g[2] = 0 \/ g[2] = 2 * size}

\* the entries of self.grid that are 1 after _initialize_walls; a slice
\* grid[lo:hi, col] holds the rows lo..hi-1 of column col
_initialize_walls(size) ==
    GridBorder(size) \cup
    (IF size = 5
     THEN ((1..3) \X {4}) \cup ((7..9) \X {2}) \cup ((7..9) \X {6})
     ELSE ((1..7) \X {6}) \cup ((13..19) \X {2}) \cup ((13..19) \X {8})
          \cup ((5..11) \X {12}) \cup ((1..7) \X {16}) \cup ((13..19) \X {16}))

\* GridworldEnv._action_offsets: can_run and action_space take INTERACT to be
\* the id after the last movement id, so there are INTERACT movement ids: the
\* four unit moves and one that leaves the position alone
_action_offsets ==
    [a \in 0..(INTERACT - 1) |->
        CASE a = 0 -> <<0, -1>>
          [] a = 1 -> <<0, 1>>
          [] a = 2 -> <<-1, 0>>
          [] a = 3 -> <<1, 0>>
          [] OTHER -> <<0, 0>>]

\* len(self._action_ids)
NActionIds == Cardinality(DOMAIN _action_offsets)

\* position + offset on numpy arrays
PosAdd(position, offset) == <<position[1] + offset[1], position[2] + offset[2]>>

\* self.grid.has_wall(position, offset): the grid entry between the cell and
\* its neighbour in the direction of offset
\* self.grid of an environment of each supported size
Grids == [size \in {5, 10} |-> _initialize_walls(size)]

has_wall(size, position, offset) ==
    <<2 * position[1] + 1 + offset[1], 2 * position[2] + 1 + offset[2]>> \in Grids[size]

\* the cells of the grid, the values of self._random_grid_position()
GridPositions(size) == (0..(size - 1)) \X (0..(size - 1))

\* the sequences of n distinct elements of a sequence of names: the first n
\* entries of copy.deepcopy(names) after np_random.shuffle
ShufflePrefix(names, n) ==
    {s \in [1..n -> {names[k] : k \in 1..Len(names)}] :
        \A i, j \in 1..n : i # j => s[i] # s[j]}

\* the shuffles of the goal depots that the runs explore: the rotations of
\* the names, so that every depot is the goal of every passenger in one of them
GoalShuffles(names, n) ==
    {[i \in 1..n |-> names[((k + i - 2) % Len(names)) + 1]] : k \in 1..Len(names)}

\* Passenger(color=c): not in the taxi, at the default position
Passenger(color) == [position |-> <<0, 0>>, in_taxi |-> FALSE, color |-> color]

\* self.passenger is None
NoPassenger == 0

\* _reset_goal: passenger i gets goal depot goal_depots[i]
_reset_goal(e, goal_depots) ==
    [e EXCEPT !.passengers =
        [i \in 1..Len(e.passengers) |-> [e.passengers[i] EXCEPT !.color = goal_depots[i]]]]

\* _initialize_passengers: more passengers than depots minus one is a
\* ValueError; else one passenger per name of the shuffled goal_depots
_initialize_passengers(e, goal_depots) ==
    IF ~(0 <= e.n_passengers /\ e.n_passengers <= Len(depot_names(e.size)) - 1)
    THEN [e EXCEPT !.exc = "ValueError"]
    ELSE [e EXCEPT !.passenger = NoPassenger,
                   !.passengers = [i \in 1..e.n_passengers |-> Passenger(goal_depots[i])]]

\* TaxiEnv.__init__: sizes other than 5 and 10 are a NotImplementedError; then
\* _initialize_passengers and _initialize_goal, each with its own shuffle
TaxiEnvInit(size, n_passengers, exploring_starts, fixed_goal, depot_dropoff_only, first_shuffle, goal_depots) ==
    LET e0 == [cls |-> "TaxiEnv", size |-> size, n_passengers |-> n_passengers,
               exploring_starts |-> exploring_starts, fixed_goal |-> fixed_goal,
               depot_dropoff_only |-> depot_dropoff_only,
               agent |-> <<0, 0>>, passengers |-> <<>>, passenger |-> NoPassenger,
               status |-> "constructed", exc |-> "none"]
        e1 == _initialize_passengers(e0, first_shuffle)
    IN  IF size \notin {5, 10} THEN [e0 EXCEPT !.exc = "NotImplementedError"]
        ELSE IF e1.exc # "none" THEN e1
        ELSE _reset_goal(e1, goal_depots)

\* _reset_classic_start: passenger i at the depot start_depots[i], the taxi at
\* the depot start_depots[-1], given here as the entry after the passengers'
_reset_classic_start(e, start_depots) ==
    [e EXCEPT !.passengers =
                 [i \in 1..Len(e.passengers) |->
                     [e.passengers[i] EXCEPT !.position = depot_locs(e.size)[start_depots[i]],
                                             !.in_taxi = FALSE]],
              !.agent = depot_locs(e.size)[start_depots[Len(e.passengers) + 1]],
              !.passenger = NoPassenger]

\* the values passenger_locs can have when the inner loop of
\* _reset_exploring_start ends: one cell per passenger, no cell twice
UniqueLocs(size, n) ==
    {locs \in [1..n -> GridPositions(size)] : \A i, j \in 1..n : i # j => locs[i] # locs[j]}

\* _reset_exploring_start.  np.stack of an empty list raises ValueError, so
\* without passengers the first statement of the loop fails.  to_passenger and
\* in_taxi are the two tests np_random.random() > 0.5, which the passenger drawn
\* by np_random.choice, taxi_position the taxi's own random cell.
_reset_exploring_start(e, passenger_locs, to_passenger, which, in_taxi, taxi_position) ==
    IF e.n_passengers = 0 THEN [e EXCEPT !.exc = "ValueError"]
    ELSE LET placed == [i \in 1..Len(e.passengers) |->
                           [e.passengers[i] EXCEPT !.position = passenger_locs[i],
                                                   !.in_taxi = FALSE]]
         IN  IF to_passenger
             THEN IF in_taxi
                  THEN [e EXCEPT !.passengers = [placed EXCEPT ![which].in_taxi = TRUE],
                                 !.agent = placed[which].position,
                                 !.passenger = which]
                  ELSE [e EXCEPT !.passengers = placed,
                                 !.agent = placed[which].position,
                                 !.passenger = NoPassenger]
             ELSE [e EXCEPT !.passengers = placed,
                            !.agent = taxi_position,
                            !.passenger = NoPassenger]

\* get_state: the taxi's row and column, then row, column, in_taxi (as an
\* integer) and goal depot id of every passenger
get_state(e) ==
    LET entries(p) == <<p.position[1], p.position[2], IF p.in_taxi THEN 1 ELSE 0,
                        depot_ids(e.size)[p.color]>>
    IN  e.agent \o MkSeq(4 * Len(e.passengers),
                         [k \in 1..(4 * Len(e.passengers)) |->
                             entries(e.passengers[((k - 1) \div 4) + 1])[((k - 1) % 4) + 1]])

\* get_goal_state: row and column of the goal depot, in_taxi False (0) and
\* the goal depot id of every passenger
get_goal_state(e) ==
    LET entries(p) == <<depot_locs(e.size)[p.color][1], depot_locs(e.size)[p.color][2], 0,
                        depot_ids(e.size)[p.color]>>
    IN  MkSeq(4 * Len(e.passengers),
              [k \in 1..(4 * Len(e.passengers)) |->
                  entries(e.passengers[((k - 1) \div 4) + 1])[((k - 1) % 4) + 1]])

\* _check_goal: np.all(state[2:] == goal), true of two empty arrays
_check_goal(e, state) == SubSeq(state, 3, Len(state)) = get_goal_state(e)

\* GridworldEnv._step(action): the agent moves by the action's offset
GridworldStep(e, action) == [e EXCEPT !.agent = PosAdd(e.agent, _action_offsets[action])]

\* the passengers other than the carried one that stand on a position
OthersAt(e, position) ==
    {i \in 1..Len(e.passengers) : i # e.passenger /\ e.passengers[i].position = position}

\* the passengers standing where the taxi is, in list order
PassengersHere(e) == {i \in 1..Len(e.passengers) : e.passengers[i].position = e.agent}

\* _step without the test of self.passenger: INTERACT runs the pickup loop
\* whether or not a passenger is carried
StepAlwaysPickup(e, action) ==
    IF action # INTERACT
    THEN LET moved == GridworldStep(e, action)
         IN  IF moved.passenger # NoPassenger
             THEN [moved EXCEPT !.passengers[moved.passenger].position = moved.agent]
             ELSE moved
    ELSE IF PassengersHere(e) = {} THEN e
         ELSE LET first == CHOOSE i \in PassengersHere(e) : \A j \in PassengersHere(e) : i <= j
              IN  [e EXCEPT !.passengers[first].in_taxi = TRUE, !.passenger = first]

\* _step: execute action without checking if it can run.  A movement moves
\* the taxi and the carried passenger with it; INTERACT picks up the first
\* passenger of the list found at the taxi's cell when none is carried, and
\* else drops the carried one unless another passenger stands on its cell.
_step(e, action) ==
    IF action # INTERACT
    THEN LET moved == GridworldStep(e, action)
         IN  IF moved.passenger # NoPassenger
             THEN [moved EXCEPT !.passengers[moved.passenger].position = moved.agent]
             ELSE moved
    ELSE IF e.passenger = NoPassenger
         THEN IF PassengersHere(e) = {} THEN e
              ELSE LET first == CHOOSE i \in PassengersHere(e) :
                                    \A j \in PassengersHere(e) : i <= j
                   IN  [e EXCEPT !.passengers[first].in_taxi = TRUE, !.passenger = first]
         ELSE IF OthersAt(e, e.passengers[e.passenger].position) = {}
              THEN [e EXCEPT !.passengers[e.passenger].in_taxi = FALSE,
                             !.passenger = NoPassenger]
              ELSE e

\* can_run without the test that keeps a carried passenger off the cell of
\* another one
CanRunIgnoringOverlap(e, action) ==
    IF action < NActionIds
    THEN ~has_wall(e.size, e.agent, _action_offsets[action])
    ELSE IF e.passenger = NoPassenger
         THEN PassengersHere(e) # {}
         ELSE \/ ~e.depot_dropoff_only
              \/ \E name \in DOMAIN depot_locs(e.size) : depot_locs(e.size)[name] = e.agent

\* can_run, for the actions its assertion admits (0..len(_action_ids))
can_run(e, action) ==
    IF action < NActionIds
    THEN IF has_wall(e.size, e.agent, _action_offsets[action]) THEN FALSE
         ELSE IF e.passenger = NoPassenger THEN TRUE
         ELSE OthersAt(e, PosAdd(e.agent, _action_offsets[action])) = {}
    ELSE IF e.passenger = NoPassenger
         THEN PassengersHere(e) # {}
         ELSE \/ ~e.depot_dropoff_only
              \/ \E name \in DOMAIN depot_locs(e.size) : depot_locs(e.size)[name] = e.agent

(***************************************************************************)
(* Episodes of a TaxiEnv: construction, one _reset, then steps.  _reset is *)
(* two actions, its entry and one round of its loop, since the loop need   *)
(* not end; a round that draws a goal state leaves the reset in its loop.  *)
(***************************************************************************)
\* the sizes and passenger counts of the episodes explored
TaxiSizes == {5}
MaxPassengers == 2

\* the environments TaxiEnv(...) can return for the sizes and passenger counts
TaxiEnvs(sizes, max_passengers) ==
    UNION {{TaxiEnvInit(size, n, exploring_starts, fixed_goal, depot_dropoff_only, first_shuffle, goal_depots) :
               exploring_starts \in BOOLEAN, fixed_goal \in BOOLEAN,
               depot_dropoff_only \in BOOLEAN,
               first_shuffle \in GoalShuffles(depot_names(size), n),
               goal_depots \in GoalShuffles(depot_names(size), n)} :
           size \in sizes, n \in 0..max_passengers}

InitTaxi == /\ heap = <<>>
            /\ mdp1 = NoObj
            /\ mdp2 = NoObj
            /\ mdp3 = NoObj
            /\ ret = [op |-> "none", exc |-> "none"]
            /\ nwrites = 0
            /\ env \in TaxiEnvs(TaxiSizes, MaxPassengers)

\* _reset up to its loop: a new goal unless the goal is fixed
ResetEnter ==
    /\ env.cls = "TaxiEnv"
    /\ env.status = "constructed"
    /\ \/ /\ env.fixed_goal
          /\ env' = [env EXCEPT !.status = "resetting"]
       \/ /\ ~env.fixed_goal
          /\ \E goal_depots \in GoalShuffles(depot_names(env.size), env.n_passengers) :
                env' = [_reset_goal(env, goal_depots) EXCEPT !.status = "resetting"]
    /\ UNCHANGED <<heap, mdp1, mdp2, mdp3, ret, nwrites>>

\* the exit of a round of the loop of _reset that drew the start e: an
\* exception leaves _reset, a start that is no goal state ends it, and a goal
\* state repeats the loop, whose next round overwrites all that this one wrote
\* (positions, in_taxi, self.passenger), so the write is not kept
RoundExit(e0, e) ==
    IF e.exc # "none" THEN [e EXCEPT !.status = "raised"]
    ELSE IF ~_check_goal(e, get_state(e)) THEN [e EXCEPT !.status = "ready"]
    ELSE e0

\* one round of the loop of _reset.  The inner loop of _reset_exploring_start
\* redraws until no two passengers share a cell; its result is drawn here.
ResetLoop ==
    /\ env.cls = "TaxiEnv"
    /\ env.status = "resetting"
    /\ \/ /\ env.exploring_starts
          /\ \E locs \in UniqueLocs(env.size, env.n_passengers) :
                \/ \E which \in 1..env.n_passengers, in_taxi \in BOOLEAN :
                      env' = RoundExit(env, _reset_exploring_start(env, locs, TRUE, which, in_taxi, <<0, 0>>))
                \/ \E taxi_position \in GridPositions(env.size) :
                      env' = RoundExit(env, _reset_exploring_start(env, locs, FALSE, 1, FALSE, taxi_position))
       \/ /\ ~env.exploring_starts
          /\ \E start_depots \in ShufflePrefix(depot_names(env.size), env.n_passengers + 1) :
                env' = RoundExit(env, _reset_classic_start(env, start_depots))
    /\ UNCHANGED <<heap, mdp1, mdp2, mdp3, ret, nwrites>>

\* step as its callers use it: _step(action) only when can_run(action)
GuardedStep ==
    /\ env.cls = "TaxiEnv"
    /\ env.status = "ready"
    /\ \E action \in 0..NActionIds :
          /\ can_run(env, action)
          /\ env' = _step(env, action)
    /\ UNCHANGED <<heap, mdp1, mdp2, mdp3, ret, nwrites>>

\* _step called directly, whatever can_run says; the runs explored keep the
\* taxi on the grid
UncheckedStep ==
    /\ env.cls = "TaxiEnv"
    /\ env.status = "ready"
    /\ \E action \in 0..NActionIds :
          /\ action # INTERACT
                => PosAdd(env.agent, _action_offsets[action]) \in GridPositions(env.size)
          /\ env' = _step(env, action)
    /\ UNCHANGED <<heap, mdp1, mdp2, mdp3, ret, nwrites>>

NextTaxi == ResetEnter \/ ResetLoop \/ GuardedStep

SpecTaxi == InitTaxi /\ [][NextTaxi]_vars

NextTaxiAny == ResetEnter \/ ResetLoop \/ UncheckedStep

SpecTaxiAny == InitTaxi /\ [][NextTaxiAny]_vars

(***************************************************************************)
(* _reset alone, on every supported size.  The random draws are fair: a    *)
(* round of the loop that can leave it does so in the end.                 *)
(***************************************************************************)
ResetSizes == {5, 10}
MaxResetPassengers == 1

InitReset == /\ heap = <<>>
             /\ mdp1 = NoObj
             /\ mdp2 = NoObj
             /\ mdp3 = NoObj
             /\ ret = [op |-> "none", exc |-> "none"]
             /\ nwrites = 0
             /\ env \in TaxiEnvs(ResetSizes, MaxResetPassengers)

NextReset == ResetEnter \/ ResetLoop

SpecReset == InitReset /\ [][NextReset]_vars /\ WF_vars(ResetEnter) /\ WF_vars(ResetLoop)

(***************************************************************************)
(* Properties of the construction chain                                   *)
(***************************************************************************)
RowSumsOne(M) == \A i \in 1..NRows(M) : VSum(M[i]) = One

\* row s of obs_fn is positive exactly on the k columns of its own block
IsBlockDiagonal(obs_fn) ==
    /\ NCols(obs_fn) % NRows(obs_fn) = 0
    /\ LET k == NCols(obs_fn) \div NRows(obs_fn)
       IN \A s \in 1..NRows(obs_fn), x \in 1..NCols(obs_fn) :
             (obs_fn[s][x][1] > 0) <=> ((x - 1) \div k = s - 1)

\* mdp3 = AbstractMDP(mdp2, phi) with test()'s perfect phi and the defaults
PerfectAbstraction ==
    /\ mdp2.cls = "BlockMDP"
    /\ mdp3.cls = "AbstractMDP"
    /\ mdp3.phi = PerfectPhi(mdp2.obs_fn)
    /\ ~ret.pi.some /\ ~ret.p0.some

\* the base MDPs MDP.generate returns, which test() builds the chain on: every
\* row of every T[a] sums to 1, and R[a] is zero wherever T[a] is
Generated(o) ==
    LET Tv == ArrT(heap, o)
        Rv == ArrR(heap, o)
    IN \A a \in 1..Len(Tv) :
          /\ RowSumsOne(Tv[a])
          /\ \A s \in 1..NRows(Tv[a]), y \in 1..NCols(Tv[a]) :
                Tv[a][s][y] = Zero => Rv[a][s][y] = Zero

\* C1: round trip.  For base MDP mdp1, BlockMDP mdp2 built from it with a
\* row-stochastic block-diagonal obs_fn, and mdp3 = AbstractMDP(mdp2, phi) with
\* the perfect phi and the default pi and p0, mdp3.T[a] is close to mdp1.T[a]
\* and mdp3.R[a] to mdp1.R[a], for every action a.  The claim is for every base
\* MDP; it is stated here for the ones MDP.generate returns, so a violation is
\* one on the inputs of test() itself.
C1_RoundTrip ==
    (PerfectAbstraction /\ Generated(mdp1)
        /\ RowSumsOne(mdp2.obs_fn) /\ IsBlockDiagonal(mdp2.obs_fn))
    => /\ StackClose(ArrT(heap, mdp3), ArrT(heap, mdp1))
       /\ StackClose(ArrR(heap, mdp3), ArrR(heap, mdp1))

AllStochastic(Tv) == \A a \in 1..Len(Tv) : is_stochastic(Tv[a])

\* C5: the stochastic-matrix invariant is preserved.  The base MDP's rows sum
\* to 1 or are all-zero; then so do the rows of every T[a] of the BlockMDP built
\* from it with a row-stochastic obs_fn and of the AbstractMDP built with a
\* one-hot phi.
C5_StochasticPreserved ==
    /\ (mdp2.cls = "BlockMDP" /\ AllStochastic(ArrT(heap, mdp1)) /\ RowSumsOne(mdp2.obs_fn))
          => AllStochastic(ArrT(heap, mdp2))
    /\ (mdp3.cls = "AbstractMDP" /\ AllStochastic(ArrT(heap, mdp3.base_mdp))
          /\ RowSumsOne(mdp3.phi))
          => AllStochastic(ArrT(heap, mdp3))

SquareOf(M, n) == NRows(M) = n /\ \A i \in 1..NRows(M) : Len(M[i]) = n

\* C6: a BlockMDP's n_states is base.n_states times the number of observations
\* per block, and is the row and column count of every T[a] and R[a], whether
\* obs_fn was drawn or supplied.
C6_BlockStateCount ==
    mdp2.cls = "BlockMDP"
    => /\ mdp2.n_states = mdp1.n_states * (NCols(mdp2.obs_fn) \div mdp1.n_states)
       /\ \A a \in 1..mdp2.n_actions :
             /\ SquareOf(ArrT(heap, mdp2)[a], mdp2.n_states)
             /\ SquareOf(ArrR(heap, mdp2)[a], mdp2.n_states)

\* C7: an AbstractMDP's R_min and R_max are the least and greatest entry of
\* its own reward matrices.
C7_AbstractRewardBounds ==
    mdp3.cls = "AbstractMDP"
    => /\ mdp3.R_min = StackMin(ArrR(heap, mdp3))
       /\ mdp3.R_max = StackMax(ArrR(heap, mdp3))

(***************************************************************************)
(* Properties of the chain with a writing caller                           *)
(***************************************************************************)
\* the contents of an object as a caller reads them: the values of its arrays,
\* its scalars, and the same of its base_mdp
RECURSIVE Contents(_, _)
Contents(h, o) ==
    [T |-> h[o.T], R |-> h[o.R], gamma |-> o.gamma,
     n_states |-> o.n_states, n_actions |-> o.n_actions,
     base_mdp |-> IF o.cls = "MDP" THEN <<>> ELSE <<Contents(h, o.base_mdp)>>]

\* T, R, gamma, n_states and n_actions of an object
Own(h, o) == [Contents(h, o) EXCEPT !.base_mdp = <<>>]

\* a step leaves the object as it was: same fields, same array contents, same
\* base_mdp contents
Kept(o, oNext) == oNext = o /\ Contents(heap', o) = Contents(heap, o)

ChainBase == IF mdp2.cls # "None" THEN mdp2 ELSE mdp1

\* C8: MDP(T, R) stores copies of the caller's arrays; constructing a BlockMDP
\* or an AbstractMDP leaves its base MDP's T, R, gamma, n_states, n_actions as
\* they were and stores a base_mdp whose T and R equal the base's at
\* construction time; no later in-place change to the caller's arrays or to the
\* base MDP's arrays changes a constructed object's T or R or its base_mdp.
\* (obs_fn and phi, which the constructors store as passed, are not among the
\* arrays the claim names.)
C8_NoAliasing ==
    [][/\ mdp1.cls # "None" /\ ~(ret'.op = "write" /\ ret'.target \in {"baseT", "baseR"})
             => Kept(mdp1, mdp1')
       /\ mdp1.cls # "None" => mdp1' = mdp1
       /\ mdp2.cls # "None" => Kept(mdp2, mdp2')
       /\ mdp3.cls # "None" => Kept(mdp3, mdp3')
       /\ mdp1.cls = "None" /\ mdp1'.cls # "None"
             => /\ heap'[mdp1'.T] = heap[CallerT] /\ heap'[mdp1'.R] = heap[CallerR]
                /\ heap'[CallerT] = heap[CallerT] /\ heap'[CallerR] = heap[CallerR]
       /\ mdp2.cls = "None" /\ mdp2'.cls # "None"
             => Own(heap', mdp2'.base_mdp) = Own(heap, mdp1)
       /\ mdp3.cls = "None" /\ mdp3'.cls # "None"
             => Contents(heap', mdp3'.base_mdp) = Contents(heap, ChainBase)
      ]_vars

\* the caller has overwritten its own T and the base MDP's T after the BlockMDP
\* and the AbstractMDP were built, and the three objects differ from what the
\* caller now holds
C8_Witness ==
    /\ mdp2.cls = "BlockMDP" /\ mdp3.cls = "AbstractMDP"
    /\ nwrites = 2
    /\ heap[CallerT] = Scribble(heap[CallerT])
    /\ heap[mdp1.T] = Scribble(heap[mdp1.T])
    /\ heap[mdp2.base_mdp.T] # heap[mdp1.T]
    /\ heap[mdp3.base_mdp.base_mdp.T] # heap[mdp1.T]
    /\ heap[mdp3.T] # Scribble(heap[mdp3.T])

(***************************************************************************)
(* Properties of the policy operations                                     *)
(***************************************************************************)
\* pi gives the same action to every two base states phi puts in one class
ClassConstant(phi, pi) ==
    \A x \in 1..NRows(phi), y \in 1..NRows(phi) : phi[x] = phi[y] => pi[x] = pi[y]

\* C2: for a one-hot phi (with several multi-member classes, with one, with
\* none) and a deterministic base policy pi, is_abstract_policy(pi) does not
\* raise and returns the boolean "pi gives the same action to every two states
\* of one class"
C2_IsAbstractPolicy ==
    ret.op = "is_abstract_policy"
       => /\ ret.exc = "none"
          /\ ret.val \in BOOLEAN
          /\ ret.val <=> ClassConstant(mdp3.phi, ret.arg)

\* digit s (most significant first) of i written in base n_actions on n_states
\* digits
Expansion(i, n_actions, n_states) ==
    [s \in 1..n_states |-> (i \div Pow(n_actions, n_states - s)) % n_actions]

\* C3: for positive n_states and n_actions, all_policies() returns
\* n_actions^n_states policies, entry i being get_policy(i), and get_policy(i)
\* is the zero-padded base-n_actions expansion of i, most significant digit
\* first (so the first policy is all zeros, the last all n_actions - 1, and
\* distinct indices give distinct policies)
C3_AllPolicies ==
    LET na == mdp1.n_actions
        ns == mdp1.n_states
    IN /\ ret.op = "all_policies"
          => /\ ret.exc = "none"
             /\ Len(ret.val) = Pow(na, ns)
             /\ \A i \in 0..(Pow(na, ns) - 1) :
                   /\ Ok(ret.val[i + 1]) = get_policy(mdp1, i)
                   /\ ret.val[i + 1] = Expansion(i, na, ns)
             /\ ret.val[1] = [s \in 1..ns |-> 0]
             /\ ret.val[Pow(na, ns)] = [s \in 1..ns |-> na - 1]
       /\ ret.op = "get_policy" /\ 0 <= ret.arg /\ ret.arg < Pow(na, ns)
          => /\ ret.exc = "none"
             /\ ret.val = Expansion(ret.arg, na, ns)

\* the base states phi maps to class z
Members(phi, z) == {x \in 1..NRows(phi) : phi[x][z][1] # 0}

\* C4: for a one-hot phi, get_abstract_policy(pi) on a pi that is constant on
\* every class returns a vector with one entry per abstract state, entry z the
\* action pi gives the members of class z; on a pi that gives two members of
\* one class different actions it fails
C4_GetAbstractPolicy ==
    ret.op = "get_abstract_policy"
       => IF ClassConstant(mdp3.phi, ret.arg)
          THEN /\ ret.exc = "none"
               /\ Len(ret.val) = mdp3.n_states
               /\ \A z \in 1..mdp3.n_states : \A x \in Members(mdp3.phi, z) :
                     ret.val[z] = ret.arg[x]
          ELSE ret.exc # "none"

(***************************************************************************)
(* Properties of stationary_distribution                                   *)
(***************************************************************************)
RetObj == IF ret.obj = "mdp1" THEN mdp1 ELSE mdp2

\* the distribution the call starts from
RetStart == IF ret.p0.some THEN ret.p0.val ELSE UniformRow(RetObj.n_states)

\* the t-th iterate: image applied t times to the start
RECURSIVE Iterate(_)
Iterate(t) == IF t = 0 THEN RetStart
              ELSE image(ArrT(heap, RetObj), RetObj.n_states, Iterate(t - 1), ret.pi).val

\* the steps at which the iterate is np.allclose to the one before it
CloseSteps == {t \in 1..ret.max_steps : DistrClose(Iterate(t), Iterate(t - 1))}

\* C9: for every pi (or none), every p0 and every max_steps >= 0,
\* stationary_distribution does not raise, calls image at most max_steps times
\* and returns the iterate it reached; it stops at the first step whose iterate
\* is close to the previous one, so it stops before max_steps exactly when
\* there is such a step before max_steps; with max_steps = 0 it returns p0 (or
\* the uniform distribution) unchanged
C9_StationaryDistribution ==
    ret.op = "stationary_distribution"
       => /\ ret.exc = "none"
          /\ ret.steps <= ret.max_steps
          /\ ret.val = Iterate(ret.steps)
          /\ ret.steps < ret.max_steps <=> \E t \in CloseSteps : t < ret.max_steps
          /\ ret.steps < ret.max_steps => ret.steps \in CloseSteps
          /\ \A t \in CloseSteps : ret.steps <= t
          /\ ret.max_steps = 0 => ret.val = RetStart

(***************************************************************************)
(* Properties of random_sparse_mask                                        *)
(***************************************************************************)
Ones(row) == {c \in 1..Len(row) : row[c] = One}

\* the derived per-cell probability q = (n_cols*p - 1)/(n_cols - 1), p = 1 -
\* sparsity, is <= 0 or > 1 (n_cols >= 2)
Infeasible(n_cols, sparsity) ==
    LET num == RSub(RMul(FromInt(n_cols), RSub(One, sparsity)), One)
    IN RLe(num, Zero) \/ RLt(FromInt(n_cols - 1), num)

\* C10: for every sparsity in [0,1), every shape with n_rows >= 1 and n_cols >= 1
\* (n_cols = 1 included) and every outcome of the draws and shuffles,
\* random_sparse_mask returns a 0/1 mask of that shape with at least one 1 in
\* every row, and with exactly one 1 in every row when q <= 0 or q > 1
C10_MaskRows ==
    ret.op = "random_sparse_mask"
       => /\ ret.exc = "none"
          /\ Len(ret.val) = ret.n_rows
          /\ \A r \in 1..ret.n_rows :
                /\ Len(ret.val[r]) = ret.n_cols
                /\ \A c \in 1..ret.n_cols : ret.val[r][c] \in {Zero, One}
                /\ Ones(ret.val[r]) # {}
                /\ ret.n_cols = 1 \/ Infeasible(ret.n_cols, ret.sparsity)
                      => Cardinality(Ones(ret.val[r])) = 1

(***************************************************************************)
(* Properties of get_policy outside its range                              *)
(***************************************************************************)
\* C11: for every integer i outside [0, n_actions^n_states), above the range
\* or negative, get_policy(i) fails its precondition check (the assert of line
\* 78) and returns no policy
C11_OutOfRangeFails ==
    (ret.op = "get_policy"
        /\ (ret.arg < 0 \/ ret.arg >= Pow(mdp1.n_actions, mdp1.n_states)))
       => ret.exc = "AssertionError"

(***************************************************************************)
(* Properties of TaxiEnv episodes                                          *)
(***************************************************************************)
\* C12: after _reset (exploring or classic start) and any sequence of actions
\* that _step executed only when can_run allowed them, no two passengers
\* occupy the same grid cell
C12_NoSharedCell ==
    env.status = "ready"
        => \A i, j \in 1..Len(env.passengers) :
              i # j => env.passengers[i].position # env.passengers[j].position

\* after a classic start, the taxi carries a passenger next to the cell of
\* another one, no wall between them, and can_run refuses that move; the
\* other passenger stands off the depots, where an earlier ride left it
C12_Witness ==
    /\ env.status = "ready"
    /\ ~env.exploring_starts
    /\ env.passenger # NoPassenger
    /\ \E a \in 0..(NActionIds - 1) :
          /\ ~has_wall(env.size, env.agent, _action_offsets[a])
          /\ ~can_run(env, a)
          /\ \E i \in OthersAt(env, PosAdd(env.agent, _action_offsets[a])) :
                \A name \in DOMAIN depot_locs(env.size) :
                   env.passengers[i].position # depot_locs(env.size)[name]

\* C13: after _reset and any sequence of _step calls, allowed by can_run or
\* not, at most one passenger has in_taxi true, and self.passenger is that
\* passenger when there is one and None otherwise
C13_OneInTaxi ==
    env.status = "ready"
        => LET InTaxi == {i \in 1..Len(env.passengers) : env.passengers[i].in_taxi}
           IN  /\ Cardinality(InTaxi) <= 1
               /\ env.passenger # NoPassenger => InTaxi = {env.passenger}
               /\ env.passenger = NoPassenger => InTaxi = {}

\* after a classic start, the taxi carries a passenger and stands on the cell
\* of another one that comes before it in the list of passengers: the cell
\* where an INTERACT could take a second passenger
C13_Witness ==
    /\ env.status = "ready"
    /\ ~env.exploring_starts
    /\ env.passenger # NoPassenger
    /\ \E i \in OthersAt(env, env.agent) : i < env.passenger /\ ~env.passengers[i].in_taxi

(***************************************************************************)
(* Properties of _reset                                                    *)
(***************************************************************************)
\* C14: for every supported configuration (size 5 or 10, any number of
\* passengers from 0 to the number of depots minus 1, either kind of start,
\* fixed goal or not), _reset eventually returns without raising, and the
\* state it returns in is not a goal state
C14_ResetReturns ==
    /\ <>(env.status = "ready")
    /\ [](env.status = "ready" => ~_check_goal(env, get_state(env)))
====
